---------------------------- MODULE Spec2Model ----------------------------
(***************************************************************************)
(* A model of task_manager_app.py (class TaskManagerApp): the process      *)
(* cache self.process_data, the Treeview rows built by search_processes /  *)
(* _insert_process_to_treeview, the context-menu control actions (kill,    *)
(* suspend, resume, open file location) and the background sampling cycle  *)
(* that replaces the cache through the Tk "after" queue, and the two other *)
(* periodic tasks: update_system_info (the gauges) and                     *)
(* check_removable_drive.                                                  *)
(*                                                                         *)
(* Strings are sequences of one-character strings so that str.lower() and  *)
(* the "in" substring test are computed, not assumed.                      *)
(***************************************************************************)
EXTENDS Integers, Sequences, FiniteSets, TLC

(***************************************************************************)
(* Bounds of the model.                                                    *)
(***************************************************************************)
\* pids of the render specification are 1..MaxProcs; a table holds at most
\* MaxProcs records.
MaxProcs == 3
\* pids of the operating system in the application specification: 1..MaxPid.
MaxPid == 1
\* pids of the operating system in the sampling specification: 1..MaxLive.
MaxLive == 2
\* pids of the operating system in the snapshot specification: 1..MaxSnap.
MaxSnap == 3
\* Entries of a raw list in the reconcile specification.
MaxRaw == 3
\* Samples that the sampling specification numbers.
MaxSamples == 3
\* Processes that may take one pid in turn after its first holder, in the
\* pid-reuse specification.
MaxReuse == 1

\* ppid values a record may carry: 0 (no parent), any pid (present or absent
\* in the table, the record's own pid included).
Ppids == 0..MaxProcs

(***************************************************************************)
(* Strings.                                                                *)
(***************************************************************************)
\* str.lower() on one character.
LowerChar(c) == CASE c = "A" -> "a" [] c = "B" -> "b" [] OTHER -> c

\* str.lower(): search_entry.get().lower(), process_info['name'].lower().
Lower(s) == [i \in 1..Len(s) |-> LowerChar(s[i])]

\* Python's "t in s" on strings: t occurs in s as a contiguous substring;
\* the empty string occurs in every string.
Contains(s, t) ==
    \E i \in 0..(Len(s) - Len(t)) : SubSeq(s, i + 1, i + Len(t)) = t

\* Process names and the texts typed in the search entry.
Names == {<<"A", "b">>, <<"b", "A">>}
Terms == {<<>>, <<"A">>, <<"a", "B">>}

(***************************************************************************)
(* The process cache: self.process_data, a dict keyed by pid. A dict       *)
(* iterates in insertion order, so the cache is a sequence of records with *)
(* distinct pids.                                                          *)
(***************************************************************************)
PidsOf(table) == {table[i].pid : i \in 1..Len(table)}

\* self.process_data[pid]
RecordOf(table, pid) ==
    table[CHOOSE i \in 1..Len(table) : table[i].pid = pid]

(***************************************************************************)
(* The Treeview: a sequence of rows in insertion order. A row keeps the    *)
(* displayed values, its depth (0 = inserted under "", 1 = inserted under  *)
(* another row) and the pid of the row it was inserted under (0 = none).   *)
(* tree_items maps a pid to the position of its row.                       *)
(***************************************************************************)
Row(pid, rec, depth, parent) ==
    [pid |-> pid, name |-> rec.name, status |-> rec.status, ppid |-> rec.ppid,
     depth |-> depth, parent |-> parent]

EmptyItems == [p \in {} |-> 0]

EmptyView == [tree |-> <<>>, tree_items |-> EmptyItems]

\* tree_items[pid] = item_id
Register(items, pid, idx) ==
    [p \in (DOMAIN items) \cup {pid} |-> IF p = pid THEN idx ELSE items[p]]

\* self.tree.insert("", "end", values=values); self.tree_items[pid] = item_id
InsertRootUnregistered(view, pid, rec) ==
    [tree |-> Append(view.tree, Row(pid, rec, 0, 0)),
     tree_items |-> view.tree_items]

InsertRoot(view, pid, rec) ==
    [tree |-> Append(view.tree, Row(pid, rec, 0, 0)),
     tree_items |-> Register(view.tree_items, pid, Len(view.tree) + 1)]

\* self.tree.insert(self.tree_items[parent_id], "end", values=values):
\* the row goes under the parent's row and is not entered in tree_items.
InsertChild(view, pid, rec, parent_id) ==
    [tree |-> Append(view.tree,
                     Row(pid, rec, view.tree[view.tree_items[parent_id]].depth + 1,
                         parent_id)),
     tree_items |-> view.tree_items]

\* _insert_process_to_treeview(pid, process_info), with self.process_data =
\* table and self.children_visible = visible.
InsertChildrenHiddenAsRoot(view, table, pid, rec, visible) ==
    LET ppid == rec.ppid IN
    IF ppid = 0 \/ ppid \notin PidsOf(table)
    THEN InsertRoot(view, pid, rec)
    ELSE IF visible
         THEN IF ppid \in DOMAIN view.tree_items
              THEN InsertChild(view, pid, rec, ppid)
              ELSE InsertRoot(view, pid, rec)
         ELSE InsertRoot(view, pid, rec)

InsertChildRegistered(view, table, pid, rec, visible) ==
    LET ppid == rec.ppid IN
    IF ppid = 0 \/ ppid \notin PidsOf(table)
    THEN InsertRoot(view, pid, rec)
    ELSE IF visible
         THEN IF ppid \in DOMAIN view.tree_items
              THEN [InsertChild(view, pid, rec, ppid) EXCEPT
                      !.tree_items = Register(view.tree_items, pid,
                                              Len(view.tree) + 1)]
              ELSE InsertRoot(view, pid, rec)
         ELSE view

InsertChildOfShownParentOnly(view, table, pid, rec, visible) ==
    LET ppid == rec.ppid IN
    IF ppid = 0 \/ ppid \notin PidsOf(table)
    THEN InsertRoot(view, pid, rec)
    ELSE IF visible /\ ppid \in DOMAIN view.tree_items
         THEN InsertChild(view, pid, rec, ppid)
         ELSE view

InsertProcessToTreeview(view, table, pid, rec, visible) ==
    LET ppid == rec.ppid IN
    IF ppid = 0 \/ ppid \notin PidsOf(table)
    THEN InsertRoot(view, pid, rec)
    ELSE IF visible
         THEN IF ppid \in DOMAIN view.tree_items
              THEN InsertChild(view, pid, rec, ppid)
              ELSE InsertRoot(view, pid, rec)
         ELSE view

\* if search_term in process_info['name'].lower()
MatchesAnyOrder(search_term, rec) ==
    \A k \in 1..Len(search_term) :
        \E i \in 1..Len(rec.name) : Lower(rec.name)[i] = search_term[k]

Matches(search_term, rec) == Contains(Lower(rec.name), search_term)

\* The loop of search_processes over self.process_data.items(), from the
\* n-th record backwards: the view after the first n records were visited.
RECURSIVE RenderUpTo(_, _, _, _)
RenderUpTo(table, search_term, visible, n) ==
    IF n = 0
    THEN EmptyView
    ELSE LET before == RenderUpTo(table, search_term, visible, n - 1)
             rec == table[n]
         IN IF Matches(search_term, rec)
            THEN InsertProcessToTreeview(before, table, rec.pid, rec, visible)
            ELSE before

\* search_processes: lower the entry text, clear the Treeview and
\* tree_items, insert every matching record.
RenderFirstOnly(table, entry_text, visible) ==
    RenderUpTo(table, Lower(entry_text), visible,
               IF Len(table) = 0 THEN 0 ELSE 1)

Render(table, entry_text, visible) ==
    RenderUpTo(table, Lower(entry_text), visible, Len(table))


(***************************************************************************)
(* State.                                                                  *)
(***************************************************************************)
VARIABLES
    os,                \* the operating system: pid -> "gone", "running", "stopped"
    process_data,      \* self.process_data
    tree,              \* rows of self.tree
    tree_items,        \* self.tree_items
    search_entry,      \* text of self.search_entry
    children_visible,  \* self.children_visible
    selection,         \* self.tree.selection(): 0 = nothing, else a row position
    queue,             \* callbacks registered with self.master.after, in due order
    sampler,           \* the thread of _update_processes_thread
    last,              \* what the handler that ran last did (diagnostics)
    ui,                \* the handler the Tk thread is inside of, or "idle"
    labels,            \* texts of cpu_label, memory_label, disk_label and
                       \* removable_drive_label
    prober,            \* the thread of _check_removable_drive_thread
    incarnation,       \* pid -> how many processes held the pid before its
                       \* present (or, when it is free, next) holder
    taken,             \* number of the process sample posted last
    installed          \* number of the sample self.process_data was built from

vars == <<os, process_data, tree, tree_items, search_entry, children_visible,
          selection, queue, sampler, last, ui, labels, prober, incarnation,
          taken, installed>>

\* What no handler of the process tab writes: the position of the Tk thread
\* inside update_system_info, the labels, the drive thread and the holders
\* of the pids.
elsewhere == <<ui, labels, prober, incarnation>>

\* The numbers of the samples: written by the sampling thread and by
\* process_data_update only.
numbering == <<taken, installed>>

\* The pids the operating system may hand out.
OsPids == DOMAIN os

\* The labels as _create_widgets leaves them: the gauges show zeros, the
\* drive status "Not detected".
InitialLabels ==
    [cpu_label |-> "0", memory_label |-> "0", disk_label |-> "0",
     removable_drive_label |-> "Not detected"]

\* Attributes of the process with a given pid that the model keeps fixed:
\* pid 1 has no parent, pid p + 1 is a child of pid p.
OsPpid(pid) == pid - 1

OsName(pid) == IF pid % 2 = 1 THEN <<"A", "b">> ELSE <<"b", "A">>

\* What a handler did: the handler, the pid it read from the selected row
\* (0 = none), the outcome it logged, the OS operation it invoked on the
\* cached handle ("none" when it invoked none), the exception that
\* operation raised ("none" when it raised none), whether the handler
\* called refresh_processes, and the pids a sampling thread skipped.
Did(op, pid, outcome, os_op, raised, refresh) ==
    [op |-> op, pid |-> pid, outcome |-> outcome, os_op |-> os_op,
     raised |-> raised, refresh |-> refresh, skipped |-> {}]

Start == Did("init", 0, "none", "none", "none", FALSE)

\* A handler that only re-rendered the view (it logs nothing but timings).
Shown == Did("render", 0, "none", "none", "none", TRUE)

\* The steps of the environment and of the sampling cycle log no outcome.
Quiet == Did("none", 0, "none", "none", "none", FALSE)

(***************************************************************************)
(* The view.                                                               *)
(***************************************************************************)
\* search_processes() as called by refresh_processes(): re-render the cache
\* under the current entry text and toggle. Deleting every row empties the
\* selection.
RerenderKeepingRows(table, entry_text, visible) ==
    LET view == Render(table, entry_text, visible) IN
    /\ tree' = tree \o view.tree
    /\ tree_items' = view.tree_items
    /\ selection' = 0

Rerender(table, entry_text, visible) ==
    LET view == Render(table, entry_text, visible) IN
    /\ tree' = view.tree
    /\ tree_items' = view.tree_items
    /\ selection' = 0

\* <KeyRelease> in the search entry: the text becomes term, then
\* search_processes(event).
search_processes ==
    \E term \in Terms :
        /\ ui = "idle"
        /\ search_entry' = term
        /\ Rerender(process_data, term, children_visible)
        /\ last' = Shown
        /\ UNCHANGED <<os, process_data, children_visible, queue, sampler,
                   elsewhere, numbering>>

\* The refresh button, starting a sample as well.
refresh_processes_resampling ==
    /\ ui = "idle"
    /\ Rerender(process_data, search_entry, children_visible)
    /\ sampler' = "running"
    /\ last' = Shown
    /\ UNCHANGED <<os, process_data, search_entry, children_visible, queue,
                   elsewhere, numbering>>

\* The refresh button.
refresh_processes ==
    /\ ui = "idle"
    /\ Rerender(process_data, search_entry, children_visible)
    /\ last' = Shown
    /\ UNCHANGED <<os, process_data, search_entry, children_visible, queue,
                   sampler,
                   elsewhere, numbering>>

\* The toggle, leaving the rows as they are.
toggle_children_unrendered ==
    /\ ui = "idle"
    /\ children_visible' = ~children_visible
    /\ last' = Shown
    /\ UNCHANGED <<os, process_data, tree, tree_items, selection, search_entry,
                   queue, sampler, elsewhere, numbering>>

\* The toggle button.
toggle_children ==
    /\ ui = "idle"
    /\ children_visible' = ~children_visible
    /\ Rerender(process_data, search_entry, ~children_visible)
    /\ last' = Shown
    /\ UNCHANGED <<os, process_data, search_entry, queue, sampler,
                   elsewhere, numbering>>

(***************************************************************************)
(* The render specification: the cache is any table of at most MaxProcs    *)
(* records, in ascending pid order (render compares pids only for equality *)
(* and with 0, so every insertion order is a renaming of one of these),    *)
(* and the user types, toggles and refreshes.                              *)
(***************************************************************************)
TableRecords(pid) ==
    {[pid |-> pid, name |-> n, status |-> "running", ppid |-> pp,
      created |-> 0, process_obj |-> [pid |-> pid, created |-> 0]] :
        n \in Names, pp \in Ppids}

RECURSIVE TablesFrom(_)
TablesFrom(pid) ==
    IF pid > MaxProcs
    THEN {<<>>}
    ELSE LET rest == TablesFrom(pid + 1) IN
         rest \cup {<<r>> \o t : r \in TableRecords(pid), t \in rest}

Tables == TablesFrom(1)

RenderInit ==
    /\ os = [p \in 1..MaxPid |-> "gone"]
    /\ process_data \in Tables
    /\ tree = <<>>
    /\ tree_items = EmptyItems
    /\ search_entry \in Terms
    /\ children_visible \in BOOLEAN
    /\ selection = 0
    /\ queue = <<>>
    /\ sampler = "dead"
    /\ last = Start
    /\ ui = "idle"
    /\ labels = InitialLabels
    /\ prober = "dead"
    /\ incarnation = [p \in 1..MaxPid |-> 0]
    /\ taken = MaxSamples
    /\ installed = MaxSamples

RenderNext ==
    \/ search_processes
    \/ refresh_processes
    \/ toggle_children

SpecRender == RenderInit /\ [][RenderNext]_vars


(***************************************************************************)
(* The operating system, as psutil shows it.                               *)
(***************************************************************************)
Alive(pid) == os[pid] # "gone"

\* A handle made by psutil.Process(pid) stands for the process that held the
\* pid when it was made: kill, suspend and resume check that this process is
\* still the holder of the pid and raise NoSuchProcess when it is not.
HandleOf(pid) == [pid |-> pid, created |-> incarnation[pid]]

IsRunning(process) ==
    Alive(process.pid) /\ incarnation[process.pid] = process.created

\* A process starts, or exits on its own. A process that starts under a pid
\* used before is not told from the former holder here; os_reuse, below,
\* does tell them apart.
os_spawn ==
    \E pid \in OsPids :
        /\ ~Alive(pid)
        /\ os' = [os EXCEPT ![pid] = "running"]
        /\ last' = Quiet
        /\ UNCHANGED <<process_data, tree, tree_items, search_entry,
                       children_visible, selection, queue, sampler,
                   elsewhere, numbering>>

os_exit ==
    \E pid \in OsPids :
        /\ Alive(pid)
        /\ os' = [os EXCEPT ![pid] = "gone"]
        /\ last' = Quiet
        /\ UNCHANGED <<process_data, tree, tree_items, search_entry,
                       children_visible, selection, queue, sampler,
                   elsewhere, numbering>>

\* A process starts under the pid of a process that has exited: the pid has
\* a new holder.
os_reuse ==
    \E pid \in OsPids :
        /\ ~Alive(pid)
        /\ incarnation[pid] < MaxReuse
        /\ os' = [os EXCEPT ![pid] = "running"]
        /\ incarnation' = [incarnation EXCEPT ![pid] = @ + 1]
        /\ last' = Quiet
        /\ UNCHANGED <<process_data, tree, tree_items, search_entry,
                       children_visible, selection, queue, sampler, ui, labels,
                       prober, numbering>>

\* process.as_dict([...]) for one process of psutil.process_iter.
\* created is not one of the attributes read: it records which holder of the
\* pid the attributes were read from.
RawProcess(pid) ==
    [pid |-> pid, name |-> OsName(pid), status |-> os[pid], ppid |-> OsPpid(pid),
     created |-> incarnation[pid]]

\* The list built by the loop over psutil.process_iter, which yields the
\* processes in ascending pid order: the processes of pids, from pid on.
RECURSIVE ProcessesFrom(_, _)
ProcessesFrom(pid, pids) ==
    IF pid \notin OsPids
    THEN <<>>
    ELSE (IF pid \in pids THEN <<RawProcess(pid)>> ELSE <<>>)
         \o ProcessesFrom(pid + 1, pids)

(***************************************************************************)
(* The Tk timer queue: the pending callbacks in the order they will run,   *)
(* which is the order they fall due. A callback registered with            *)
(* after(0, ...) falls due at once: it runs after every callback           *)
(* registered with after(0, ...) before it, and before or after a pending  *)
(* timer, which may already be overdue. A timer registered with a delay    *)
(* runs after them too, and after every pending timer of the same or a     *)
(* shorter delay.                                                          *)
(***************************************************************************)
\* self.master.after(1000, self.update_system_info)
GaugeDelay == 1000
\* self.master.after(2000, self.update_processes)
ProcessDelay == 2000
\* self.master.after(5000, self.check_removable_drive)
DriveDelay == 5000

Timer == [cb |-> "update_processes"]

GaugeTimer == [cb |-> "update_system_info"]

DriveTimer == [cb |-> "check_removable_drive"]

Timers == {Timer, GaugeTimer, DriveTimer}

Delay(timer) ==
    CASE timer = GaugeTimer -> GaugeDelay
      [] timer = Timer -> ProcessDelay
      [] timer = DriveTimer -> DriveDelay

RefreshCall == [cb |-> "refresh_processes"]

UpdateCall(processes, sample) ==
    [cb |-> "process_data_update", processes |-> processes, sample |-> sample]

\* lambda: self.<label>.config(text=...)
ConfigCall(label, text) == [cb |-> "config", label |-> label, text |-> text]

Insert(q, i, callback) ==
    SubSeq(q, 1, i) \o <<callback>> \o SubSeq(q, i + 1, Len(q))

\* The last position of q that a callback falling due now cannot overtake.
Due(q) ==
    LET now == {i \in 1..Len(q) : q[i] \notin Timers} IN
    IF now = {} THEN 0 ELSE CHOOSE i \in now : \A k \in now : k <= i

\* The last position of q that a timer of the given delay cannot overtake.
DueBefore(q, delay) ==
    LET ahead == {i \in 1..Len(q) : q[i] \in Timers => Delay(q[i]) <= delay} IN
    IF ahead = {} THEN 0 ELSE CHOOSE i \in ahead : \A k \in ahead : k <= i

\* self.master.after(0, callback)
AfterNowAnywhere(q, callback) == {Insert(q, i, callback) : i \in 0..Len(q)}

AfterNow(q, callback) == {Insert(q, i, callback) : i \in Due(q)..Len(q)}

\* self.master.after(Delay(timer), timer)
AfterDelay(q, timer) ==
    {Insert(q, i, timer) : i \in DueBefore(q, Delay(timer))..Len(q)}

(***************************************************************************)
(* The sampling cycle.                                                     *)
(***************************************************************************)
\* update_processes, run by the timer: start the sampling thread.
update_processes ==
    /\ ui = "idle"
    /\ queue # <<>>
    /\ Head(queue) = Timer
    /\ queue' = Tail(queue)
    /\ sampler' = "running"
    /\ last' = Quiet
    /\ UNCHANGED <<os, process_data, tree, tree_items, search_entry,
                   children_visible, selection, elsewhere, numbering>>

\* The samples are numbered in the order they are taken, up to MaxSamples;
\* the samples after that share the number MaxSamples.
NextSample == IF taken < MaxSamples THEN taken + 1 ELSE MaxSamples

\* What the sampling thread logged: a warning for every process it could not
\* read and skipped, or the error that ended the enumeration.
Sampled(skipped) ==
    [op |-> "sample", pid |-> 0, outcome |-> "Posted", os_op |-> "none",
     raised |-> "none", refresh |-> FALSE, skipped |-> skipped]

SampleFailed ==
    [op |-> "sample", pid |-> 0, outcome |-> "Error", os_op |-> "none",
     raised |-> "Exception", refresh |-> FALSE, skipped |-> {}]

\* The enumeration ends at the first process that cannot be read.
update_processes_thread_stopping ==
    /\ sampler = "running"
    /\ \/ \E skipped \in SUBSET {pid \in OsPids : Alive(pid)} :
            LET read == {pid \in OsPids :
                            Alive(pid) /\ \A p \in skipped : pid < p}
                processes == ProcessesFrom(1, read)
            IN \E q \in AfterNow(queue, UpdateCall(processes, NextSample)) :
                   /\ queue' \in AfterDelay(q, Timer)
                   /\ sampler' = "waiting"
                   /\ taken' = NextSample
                   /\ last' = Sampled(skipped)
       \/ /\ sampler' = "failed"
          /\ queue' = queue
          /\ taken' = taken
          /\ last' = SampleFailed
    /\ UNCHANGED <<os, process_data, tree, tree_items, search_entry,
                   children_visible, selection, elsewhere, installed>>

\* _update_processes_thread: enumerate the processes, skipping the ones that
\* cannot be read, post process_data_update and the next timer; when the
\* enumeration itself fails the error is logged and nothing is posted.
update_processes_thread ==
    /\ sampler = "running"
    /\ \/ \E skipped \in SUBSET {pid \in OsPids : Alive(pid)} :
            LET processes ==
                    ProcessesFrom(1, {pid \in OsPids : Alive(pid)} \ skipped)
            IN \E q \in AfterNow(queue, UpdateCall(processes, NextSample)) :
                   /\ queue' \in AfterDelay(q, Timer)
                   /\ sampler' = "waiting"
                   /\ taken' = NextSample
                   /\ last' = Sampled(skipped)
       \/ /\ sampler' = "failed"
          /\ queue' = queue
          /\ taken' = taken
          /\ last' = SampleFailed
    /\ UNCHANGED <<os, process_data, tree, tree_items, search_entry,
                   children_visible, selection, elsewhere, installed>>

\* psutil.Process(pid) for the record of one sampled process: the handle is
\* resolved while a process holds the pid, else NoSuchProcess drops the
\* entry.
RECURSIVE ReconcileUntilGone(_)
ReconcileUntilGone(processes) ==
    IF processes = <<>>
    THEN <<>>
    ELSE LET process == Head(processes) IN
         IF Alive(process.pid)
         THEN <<[pid |-> process.pid, name |-> process.name,
                 status |-> process.status, ppid |-> process.ppid,
                 created |-> process.created,
                 process_obj |-> HandleOf(process.pid)]>>
              \o ReconcileUntilGone(Tail(processes))
         ELSE <<>>

\* The records are kept in a list, one for every entry that resolves.
RECURSIVE ReconcileKeepingEveryEntry(_)
ReconcileKeepingEveryEntry(processes) ==
    IF processes = <<>>
    THEN <<>>
    ELSE LET process == Head(processes) IN
         (IF Alive(process.pid)
          THEN <<[pid |-> process.pid, name |-> process.name,
                  status |-> process.status, ppid |-> process.ppid,
                  created |-> process.created,
                  process_obj |-> HandleOf(process.pid)]>>
          ELSE <<>>)
         \o ReconcileKeepingEveryEntry(Tail(processes))

\* new_process_data[pid] = {...}: a dict keeps a key at the place where it
\* was first inserted, with the value assigned to it last.
Put(table, rec) ==
    IF rec.pid \in PidsOf(table)
    THEN [i \in 1..Len(table) |->
              IF table[i].pid = rec.pid THEN rec ELSE table[i]]
    ELSE Append(table, rec)

\* new_process_data after the first n entries of the list were visited.
RECURSIVE ReconcileUpTo(_, _)
ReconcileUpTo(processes, n) ==
    IF n = 0
    THEN <<>>
    ELSE LET before == ReconcileUpTo(processes, n - 1)
             process == processes[n]
         IN IF Alive(process.pid)
            THEN Put(before,
                     [pid |-> process.pid, name |-> process.name,
                      status |-> process.status, ppid |-> process.ppid,
                      created |-> process.created,
                      process_obj |-> HandleOf(process.pid)])
            ELSE before

Reconcile(processes) == ReconcileUpTo(processes, Len(processes))

\* process_data_update(processes), run from the queue: build the new table,
\* replace self.process_data, post refresh_processes.
\* What process_data_update did: the number of entries it visited, and a
\* warning for every entry whose handle it could not resolve.
Reconciled(processes) ==
    [op |-> "reconcile", pid |-> 0, outcome |-> "none", os_op |-> "none",
     raised |-> "none", refresh |-> FALSE, entries |-> Len(processes),
     skipped |-> {processes[k].pid :
                     k \in {k \in 1..Len(processes) : ~Alive(processes[k].pid)}}]

process_data_update_unrendered ==
    /\ ui = "idle"
    /\ queue # <<>>
    /\ Head(queue).cb = "process_data_update"
    /\ process_data' = Reconcile(Head(queue).processes)
    /\ installed' = Head(queue).sample
    /\ queue' = Tail(queue)
    /\ last' = Reconciled(Head(queue).processes)
    /\ UNCHANGED <<os, tree, tree_items, search_entry, children_visible,
                   selection, sampler, elsewhere, taken>>

\* The new records are added to the previous table instead of replacing it.
process_data_update_merging ==
    /\ ui = "idle"
    /\ queue # <<>>
    /\ Head(queue).cb = "process_data_update"
    /\ LET table == Reconcile(Head(queue).processes)
           kept(rec) == rec.pid \notin PidsOf(table)
       IN process_data' = SelectSeq(process_data, kept) \o table
    /\ installed' = Head(queue).sample
    /\ queue' \in AfterNow(Tail(queue), RefreshCall)
    /\ last' = Reconciled(Head(queue).processes)
    /\ UNCHANGED <<os, tree, tree_items, search_entry, children_visible,
                   selection, sampler, elsewhere, taken>>

process_data_update ==
    /\ ui = "idle"
    /\ queue # <<>>
    /\ Head(queue).cb = "process_data_update"
    /\ process_data' = Reconcile(Head(queue).processes)
    /\ installed' = Head(queue).sample
    /\ queue' \in AfterNow(Tail(queue), RefreshCall)
    /\ last' = Reconciled(Head(queue).processes)
    /\ UNCHANGED <<os, tree, tree_items, search_entry, children_visible,
                   selection, sampler, elsewhere, taken>>

\* refresh_processes, run from the queue.
posted_refresh ==
    /\ ui = "idle"
    /\ queue # <<>>
    /\ Head(queue) = RefreshCall
    /\ queue' = Tail(queue)
    /\ Rerender(process_data, search_entry, children_visible)
    /\ last' = Shown
    /\ UNCHANGED <<os, process_data, search_entry, children_visible, sampler,
                   elsewhere, numbering>>

(***************************************************************************)
(* The gauges. update_system_info runs on the Tk thread, as a timer        *)
(* callback: psutil.cpu_percent(interval=1) keeps the thread inside the    *)
(* handler for the length of the interval, and no other callback or event  *)
(* handler runs until it returns.                                          *)
(***************************************************************************)
GaugeLabels == <<"cpu_label", "memory_label", "disk_label">>

\* The three self.master.after(0, lambda: ...config(text=...)) of
\* update_system_info, in the order of the code.
RECURSIVE AfterNowAll(_, _)
AfterNowAll(q, callbacks) ==
    IF callbacks = <<>>
    THEN {q}
    ELSE UNION {AfterNowAll(r, Tail(callbacks)) : r \in AfterNow(q, Head(callbacks))}

GaugeCalls == [i \in 1..Len(GaugeLabels) |-> ConfigCall(GaugeLabels[i], "read")]

\* The timer runs update_system_info: the handler is inside cpu_percent.
update_system_info ==
    /\ ui = "idle"
    /\ queue # <<>>
    /\ Head(queue) = GaugeTimer
    /\ queue' = Tail(queue)
    /\ ui' = "update_system_info"
    /\ last' = Quiet
    /\ UNCHANGED <<os, process_data, tree, tree_items, search_entry,
                   children_visible, selection, sampler, labels, prober,
                   incarnation, numbering>>

\* update_system_info returns: the reads succeeded, the three label updates
\* and the next timer are registered; or a read raised, the error is logged
\* and nothing is registered.
update_system_info_return ==
    /\ ui = "update_system_info"
    /\ ui' = "idle"
    /\ \/ /\ \E q \in AfterNowAll(queue, GaugeCalls) :
                queue' \in AfterDelay(q, GaugeTimer)
          /\ last' = Quiet
       \/ /\ queue' = queue
          /\ last' = Did("update_system_info", 0, "Error", "none", "Exception", FALSE)
    /\ UNCHANGED <<os, process_data, tree, tree_items, search_entry,
                   children_visible, selection, sampler, labels, prober,
                   incarnation, numbering>>

\* A posted lambda runs: self.<label>.config(text=...).
config ==
    /\ ui = "idle"
    /\ queue # <<>>
    /\ Head(queue).cb = "config"
    /\ labels' = [labels EXCEPT ![Head(queue).label] = Head(queue).text]
    /\ queue' = Tail(queue)
    /\ last' = Quiet
    /\ UNCHANGED <<os, process_data, tree, tree_items, search_entry,
                   children_visible, selection, sampler, ui, prober,
                   incarnation, numbering>>

(***************************************************************************)
(* The removable drive.                                                    *)
(***************************************************************************)
\* check_removable_drive, run by the timer: start the thread.
check_removable_drive ==
    /\ ui = "idle"
    /\ queue # <<>>
    /\ Head(queue) = DriveTimer
    /\ queue' = Tail(queue)
    /\ prober' = "running"
    /\ last' = Quiet
    /\ UNCHANGED <<os, process_data, tree, tree_items, search_entry,
                   children_visible, selection, sampler, ui, labels,
                   incarnation, numbering>>

\* _check_removable_drive_thread: post the status found, or log the error
\* and post "Error"; then, in either case, register the next timer.
check_removable_drive_thread ==
    /\ prober = "running"
    /\ prober' = "waiting"
    /\ \/ /\ \E status \in {"Detected", "Not detected"} :
                \E q \in AfterNow(queue, ConfigCall("removable_drive_label", status)) :
                    queue' \in AfterDelay(q, DriveTimer)
          /\ last' = Quiet
       \/ /\ \E q \in AfterNow(queue, ConfigCall("removable_drive_label", "Error")) :
                queue' \in AfterDelay(q, DriveTimer)
          /\ last' = Did("check_removable_drive", 0, "Error", "none", "Exception", FALSE)
    /\ UNCHANGED <<os, process_data, tree, tree_items, search_entry,
                   children_visible, selection, sampler, ui, labels,
                   incarnation, numbering>>

(***************************************************************************)
(* The context menu and the control actions.                               *)
(***************************************************************************)
\* show_context_menu: select the row under the pointer (none when the click
\* is outside the rows), then read the live status of its process to build
\* the menu, and post it. When status() raises, the handler logs the error
\* and posts nothing.
\* The commands that show_context_menu adds for the row of a pid whose
\* process, if the table has one, answers status().
MenuFor(pid) ==
    {"kill", "open"} \cup
    (IF pid \in PidsOf(process_data)
     THEN IF os[pid] = "running"
          THEN {"suspend"}
          ELSE IF os[pid] = "stopped" THEN {"resume"} ELSE {}
     ELSE {})

\* What show_context_menu did on a row: the commands of the menu it posted,
\* none when it posted no menu.
Menu(pid, outcome, os_op, raised, offered) ==
    [op |-> "menu", pid |-> pid, outcome |-> outcome, os_op |-> os_op,
     raised |-> raised, refresh |-> FALSE, skipped |-> {}, offered |-> offered]

show_context_menu ==
    \E row \in 0..Len(tree) :
        /\ ui = "idle"
        /\ selection' = row
        /\ last' = IF row = 0
                   THEN Quiet
                   ELSE LET pid == tree[row].pid IN
                        IF pid \in PidsOf(process_data) /\ ~Alive(pid)
                        THEN Menu(pid, "Error", "status", "NoSuchProcess", {})
                        ELSE Menu(pid, "none", "none", "none", MenuFor(pid))
        /\ UNCHANGED <<os, process_data, tree, tree_items, search_entry,
                       children_visible, queue, sampler,
                   elsewhere, numbering>>

\* The handler changes nothing but the log.
Logged(entry) ==
    /\ ui = "idle"
    /\ last' = entry
    /\ UNCHANGED <<os, process_data, tree, tree_items, search_entry,
                   children_visible, selection, queue, sampler,
                   elsewhere, numbering>>

\* The handler logs and calls refresh_processes().
LoggedAndRefreshed(entry) ==
    /\ ui = "idle"
    /\ last' = entry
    /\ Rerender(process_data, search_entry, children_visible)
    /\ UNCHANGED <<os, process_data, search_entry, children_visible, queue,
                   sampler,
                   elsewhere, numbering>>

\* The OS operation succeeded: the process has the new state, the handler
\* logs and calls refresh_processes().
PerformedForgettingRecord(entry, pid, state) ==
    LET kept(rec) == rec.pid # pid
        table == IF state = "gone"
                 THEN SelectSeq(process_data, kept)
                 ELSE [i \in 1..Len(process_data) |->
                          IF process_data[i].pid = pid
                          THEN [process_data[i] EXCEPT !.status = state]
                          ELSE process_data[i]]
    IN /\ ui = "idle"
       /\ os' = [os EXCEPT ![pid] = state]
       /\ last' = entry
       /\ process_data' = table
       /\ Rerender(table, search_entry, children_visible)
       /\ UNCHANGED <<search_entry, children_visible, queue, sampler,
                   elsewhere, numbering>>

Performed(entry, pid, state) ==
    /\ ui = "idle"
    /\ os' = [os EXCEPT ![pid] = state]
    /\ last' = entry
    /\ Rerender(process_data, search_entry, children_visible)
    /\ UNCHANGED <<process_data, search_entry, children_visible, queue, sampler,
                   elsewhere, numbering>>

KillWithoutRefreshWhenMissing ==
    IF selection = 0
    THEN Logged(Did("kill", 0, "NoSelection", "none", "IndexError", FALSE))
    ELSE LET pid == tree[selection].pid IN
         IF pid \in PidsOf(process_data)
         THEN LET process == RecordOf(process_data, pid).process_obj IN
              IF ~IsRunning(process)
              THEN LoggedAndRefreshed(
                       Did("kill", pid, "ProcessNotFound", "kill", "NoSuchProcess", TRUE))
              ELSE \/ Performed(Did("kill", pid, "Success", "kill", "none", TRUE),
                                process.pid, "gone")
                   \/ Logged(Did("kill", pid, "PermissionDenied", "kill",
                                 "AccessDenied", FALSE))
         ELSE Logged(Did("kill", pid, "ProcessNotFound", "none", "none", FALSE))

KillRefreshingWhenNothingSelected ==
    IF selection = 0
    THEN LoggedAndRefreshed(Did("kill", 0, "NoSelection", "none", "IndexError", TRUE))
    ELSE LET pid == tree[selection].pid IN
         IF pid \in PidsOf(process_data)
         THEN LET process == RecordOf(process_data, pid).process_obj IN
              IF ~IsRunning(process)
              THEN LoggedAndRefreshed(
                       Did("kill", pid, "ProcessNotFound", "kill", "NoSuchProcess", TRUE))
              ELSE \/ Performed(Did("kill", pid, "Success", "kill", "none", TRUE),
                                process.pid, "gone")
                   \/ Logged(Did("kill", pid, "PermissionDenied", "kill",
                                 "AccessDenied", FALSE))
         ELSE LoggedAndRefreshed(
                  Did("kill", pid, "ProcessNotFound", "none", "none", TRUE))

kill_selected_process ==
    IF selection = 0
    THEN Logged(Did("kill", 0, "NoSelection", "none", "IndexError", FALSE))
    ELSE LET pid == tree[selection].pid IN
         IF pid \in PidsOf(process_data)
         THEN LET process == RecordOf(process_data, pid).process_obj IN
              IF ~IsRunning(process)
              THEN LoggedAndRefreshed(
                       Did("kill", pid, "ProcessNotFound", "kill", "NoSuchProcess", TRUE))
              ELSE \/ Performed(Did("kill", pid, "Success", "kill", "none", TRUE),
                                process.pid, "gone")
                   \/ Logged(Did("kill", pid, "PermissionDenied", "kill",
                                 "AccessDenied", FALSE))
         ELSE LoggedAndRefreshed(
                  Did("kill", pid, "ProcessNotFound", "none", "none", TRUE))

SuspendPropagatingNoSuchProcess ==
    IF selection = 0
    THEN Logged(Did("suspend", 0, "NoSelection", "none", "IndexError", FALSE))
    ELSE LET pid == tree[selection].pid IN
         IF pid \in PidsOf(process_data)
         THEN LET process == RecordOf(process_data, pid).process_obj IN
              IF ~IsRunning(process)
              THEN Logged(Did("suspend", pid, "Error", "suspend",
                              "NoSuchProcess", FALSE))
              ELSE \/ Performed(Did("suspend", pid, "Success", "suspend", "none", TRUE),
                                process.pid, "stopped")
                   \/ Logged(Did("suspend", pid, "PermissionDenied", "suspend",
                                 "AccessDenied", FALSE))
         ELSE LoggedAndRefreshed(
                  Did("suspend", pid, "ProcessNotFound", "none", "none", TRUE))

suspend_selected_process ==
    IF selection = 0
    THEN Logged(Did("suspend", 0, "NoSelection", "none", "IndexError", FALSE))
    ELSE LET pid == tree[selection].pid IN
         IF pid \in PidsOf(process_data)
         THEN LET process == RecordOf(process_data, pid).process_obj IN
              IF ~IsRunning(process)
              THEN LoggedAndRefreshed(
                       Did("suspend", pid, "ProcessNotFound", "suspend",
                           "NoSuchProcess", TRUE))
              ELSE \/ Performed(Did("suspend", pid, "Success", "suspend", "none", TRUE),
                                process.pid, "stopped")
                   \/ Logged(Did("suspend", pid, "PermissionDenied", "suspend",
                                 "AccessDenied", FALSE))
         ELSE LoggedAndRefreshed(
                  Did("suspend", pid, "ProcessNotFound", "none", "none", TRUE))

ResumeRefreshingWhenDenied ==
    IF selection = 0
    THEN Logged(Did("resume", 0, "NoSelection", "none", "IndexError", FALSE))
    ELSE LET pid == tree[selection].pid IN
         IF pid \in PidsOf(process_data)
         THEN LET process == RecordOf(process_data, pid).process_obj IN
              IF ~IsRunning(process)
              THEN LoggedAndRefreshed(
                       Did("resume", pid, "ProcessNotFound", "resume",
                           "NoSuchProcess", TRUE))
              ELSE \/ Performed(Did("resume", pid, "Success", "resume", "none", TRUE),
                                process.pid, "running")
                   \/ LoggedAndRefreshed(Did("resume", pid, "PermissionDenied",
                                             "resume", "AccessDenied", FALSE))
         ELSE LoggedAndRefreshed(
                  Did("resume", pid, "ProcessNotFound", "none", "none", TRUE))

resume_selected_process ==
    IF selection = 0
    THEN Logged(Did("resume", 0, "NoSelection", "none", "IndexError", FALSE))
    ELSE LET pid == tree[selection].pid IN
         IF pid \in PidsOf(process_data)
         THEN LET process == RecordOf(process_data, pid).process_obj IN
              IF ~IsRunning(process)
              THEN LoggedAndRefreshed(
                       Did("resume", pid, "ProcessNotFound", "resume",
                           "NoSuchProcess", TRUE))
              ELSE \/ Performed(Did("resume", pid, "Success", "resume", "none", TRUE),
                                process.pid, "running")
                   \/ Logged(Did("resume", pid, "PermissionDenied", "resume",
                                 "AccessDenied", FALSE))
         ELSE LoggedAndRefreshed(
                  Did("resume", pid, "ProcessNotFound", "none", "none", TRUE))

\* open_file_location: process.exe() and the opening of the folder run in an
\* inner try whose handlers log and return; none of them refreshes.
open_file_location ==
    IF selection = 0
    THEN Logged(Did("open", 0, "NoSelection", "none", "IndexError", FALSE))
    ELSE LET pid == tree[selection].pid IN
         IF pid \in PidsOf(process_data)
         THEN LET process == RecordOf(process_data, pid).process_obj IN
              IF ~Alive(process.pid)
              THEN Logged(Did("open", pid, "Error", "exe", "NoSuchProcess", FALSE))
              ELSE \/ Logged(Did("open", pid, "Success", "exe", "none", FALSE))
                   \/ Logged(Did("open", pid, "Unsupported", "exe", "none", FALSE))
                   \/ Logged(Did("open", pid, "PermissionDenied", "exe",
                                 "AccessDenied", FALSE))
                   \/ Logged(Did("open", pid, "FileNotFound", "exe",
                                 "FileNotFoundError", FALSE))
                   \/ Logged(Did("open", pid, "Error", "exe", "Exception", FALSE))
         ELSE LoggedAndRefreshed(
                  Did("open", pid, "ProcessNotFound", "none", "none", TRUE))

(***************************************************************************)
(* The application: after __init__ the cache and the view are empty and    *)
(* the first sampling thread has been started. The search entry keeps its  *)
(* initial, empty text here; typing is part of the render specification.   *)
(***************************************************************************)
Init ==
    /\ os = [p \in 1..MaxPid |-> "running"]
    /\ process_data = <<>>
    /\ tree = <<>>
    /\ tree_items = EmptyItems
    /\ search_entry = <<>>
    /\ children_visible = FALSE
    /\ selection = 0
    /\ queue = <<>>
    /\ sampler = "running"
    /\ last = Start
    /\ ui = "idle"
    /\ labels = InitialLabels
    /\ prober = "dead"
    /\ incarnation = [p \in 1..MaxPid |-> 0]
    /\ taken = MaxSamples
    /\ installed = MaxSamples

Next ==
    \/ os_spawn
    \/ os_exit
    \/ update_processes
    \/ update_processes_thread
    \/ process_data_update
    \/ posted_refresh
    \/ refresh_processes
    \/ toggle_children
    \/ show_context_menu
    \/ kill_selected_process
    \/ suspend_selected_process
    \/ resume_selected_process
    \/ open_file_location

Spec == Init /\ [][Next]_vars

(***************************************************************************)
(* The pid-reuse specification: the application with the control actions   *)
(* on processes, where a pid that is free is taken by a new process.       *)
(***************************************************************************)
ReuseNext ==
    \/ os_exit
    \/ os_reuse
    \/ update_processes
    \/ update_processes_thread
    \/ process_data_update
    \/ posted_refresh
    \/ show_context_menu
    \/ kill_selected_process
    \/ suspend_selected_process
    \/ resume_selected_process

SpecReuse == Init /\ [][ReuseNext]_vars

(***************************************************************************)
(* The sampling specification: the sampling cycle alone, over more pids,   *)
(* with its samples numbered, while processes start and exit and the user  *)
(* types, toggles and refreshes. No control action is invoked.             *)
(***************************************************************************)
CycleInit ==
    /\ os = [p \in 1..MaxLive |-> "running"]
    /\ process_data = <<>>
    /\ tree = <<>>
    /\ tree_items = EmptyItems
    /\ search_entry = <<>>
    /\ children_visible = FALSE
    /\ selection = 0
    /\ queue = <<>>
    /\ sampler = "running"
    /\ last = Start
    /\ ui = "idle"
    /\ labels = InitialLabels
    /\ prober = "dead"
    /\ incarnation = [p \in 1..MaxLive |-> 0]
    /\ taken = 0
    /\ installed = 0

CycleNext ==
    \/ os_spawn
    \/ os_exit
    \/ update_processes
    \/ update_processes_thread
    \/ process_data_update
    \/ posted_refresh
    \/ search_processes
    \/ refresh_processes
    \/ toggle_children

SpecCycle == CycleInit /\ [][CycleNext]_vars

\* The same over the pids of the application specification, with the Tk
\* main loop running every callback that is due: the callback at the head of
\* the queue is not left there for ever.
FairInit ==
    /\ os = [p \in 1..MaxPid |-> "running"]
    /\ process_data = <<>>
    /\ tree = <<>>
    /\ tree_items = EmptyItems
    /\ search_entry = <<>>
    /\ children_visible = FALSE
    /\ selection = 0
    /\ queue = <<>>
    /\ sampler = "running"
    /\ last = Start
    /\ ui = "idle"
    /\ labels = InitialLabels
    /\ prober = "dead"
    /\ incarnation = [p \in 1..MaxPid |-> 0]
    /\ taken = 0
    /\ installed = 0

SpecCycleFair ==
    /\ FairInit
    /\ [][CycleNext]_vars
    /\ WF_vars(update_processes)
    /\ WF_vars(process_data_update)
    /\ WF_vars(posted_refresh)

(***************************************************************************)
(* The task specification: the three periodic tasks on one Tk thread.      *)
(* _create_widgets has called update_system_info once, inside __init__:    *)
(* either its label updates and its timer are registered, or it failed and *)
(* registered nothing. Then __init__ started the two threads.              *)
(***************************************************************************)
TasksInit ==
    /\ os = [p \in 1..MaxPid |-> "running"]
    /\ process_data = <<>>
    /\ tree = <<>>
    /\ tree_items = EmptyItems
    /\ search_entry = <<>>
    /\ children_visible = FALSE
    /\ selection = 0
    /\ \/ /\ \E q \in AfterNowAll(<<>>, GaugeCalls) :
                queue \in AfterDelay(q, GaugeTimer)
          /\ last = Start
       \/ /\ queue = <<>>
          /\ last = Did("update_system_info", 0, "Error", "none", "Exception", FALSE)
    /\ sampler = "running"
    /\ ui = "idle"
    /\ labels = InitialLabels
    /\ prober = "running"
    /\ incarnation = [p \in 1..MaxPid |-> 0]
    /\ taken = MaxSamples
    /\ installed = MaxSamples

TasksNext ==
    \/ update_system_info
    \/ update_system_info_return
    \/ config
    \/ check_removable_drive
    \/ check_removable_drive_thread
    \/ update_processes
    \/ update_processes_thread
    \/ process_data_update
    \/ posted_refresh
    \/ refresh_processes

SpecTasks == TasksInit /\ [][TasksNext]_vars

(***************************************************************************)
(* The language button, and the chains specification: the three periodic   *)
(* tasks together with the handlers of the buttons and of the menu.        *)
(***************************************************************************)
WidgetsCall == [cb |-> "_update_widgets_text"]

\* cycle_language: self.master.after(0, self._update_widgets_text). A second
\* press waits until the update posted by the first has run.
cycle_language ==
    /\ ui = "idle"
    /\ ~\E i \in 1..Len(queue) : queue[i] = WidgetsCall
    /\ queue' \in AfterNow(queue, WidgetsCall)
    /\ last' = Did("cycle_language", 0, "none", "none", "none", FALSE)
    /\ UNCHANGED <<os, process_data, tree, tree_items, search_entry,
                   children_visible, selection, sampler, elsewhere, numbering>>

\* _update_widgets_text, run from the queue: the texts are translated again;
\* the gauges are read in place and written to their labels, the drive label
\* keeps its status.
update_widgets_text ==
    /\ ui = "idle"
    /\ queue # <<>>
    /\ Head(queue) = WidgetsCall
    /\ queue' = Tail(queue)
    /\ labels' = [l \in DOMAIN labels |->
                     IF l = "removable_drive_label" THEN labels[l] ELSE "read"]
    /\ last' = Did("_update_widgets_text", 0, "none", "none", "none", FALSE)
    /\ UNCHANGED <<os, process_data, tree, tree_items, search_entry,
                   children_visible, selection, sampler, ui, prober,
                   incarnation, numbering>>

\* The state after __init__, on a system whose processes psutil cannot list:
\* the table stays empty, and no row can be selected.
ChainsInit ==
    /\ os = [p \in 1..MaxPid |-> "gone"]
    /\ process_data = <<>>
    /\ tree = <<>>
    /\ tree_items = EmptyItems
    /\ search_entry = <<>>
    /\ children_visible = FALSE
    /\ selection = 0
    /\ \/ /\ \E q \in AfterNowAll(<<>>, GaugeCalls) :
                queue \in AfterDelay(q, GaugeTimer)
          /\ last = Start
       \/ /\ queue = <<>>
          /\ last = Did("update_system_info", 0, "Error", "none", "Exception", FALSE)
    /\ sampler = "running"
    /\ ui = "idle"
    /\ labels = InitialLabels
    /\ prober = "running"
    /\ incarnation = [p \in 1..MaxPid |-> 0]
    /\ taken = MaxSamples
    /\ installed = MaxSamples

ChainsNext ==
    \/ update_system_info
    \/ update_system_info_return
    \/ config
    \/ check_removable_drive
    \/ check_removable_drive_thread
    \/ update_processes
    \/ update_processes_thread
    \/ process_data_update
    \/ posted_refresh
    \/ refresh_processes
    \/ toggle_children
    \/ show_context_menu
    \/ kill_selected_process
    \/ suspend_selected_process
    \/ resume_selected_process
    \/ open_file_location
    \/ cycle_language
    \/ update_widgets_text

SpecChains == ChainsInit /\ [][ChainsNext]_vars

(***************************************************************************)
(* The snapshot specification: one table update between two renders. The   *)
(* table was built from an earlier sample of the processes and is rendered *)
(* under some entry text and toggle; the thread has posted the sample of   *)
(* the processes as they are now.                                          *)
(***************************************************************************)
\* The record that process_data_update builds for a process sampled with the
\* given status.
SnapRecord(pid, status) ==
    [pid |-> pid, name |-> OsName(pid), status |-> status, ppid |-> OsPpid(pid),
     created |-> 0, process_obj |-> [pid |-> pid, created |-> 0]]

RECURSIVE SnapTablesFrom(_)
SnapTablesFrom(pid) ==
    IF pid > MaxSnap
    THEN {<<>>}
    ELSE LET rest == SnapTablesFrom(pid + 1) IN
         rest \cup {<<SnapRecord(pid, status)>> \o t :
                        status \in {"running", "stopped"}, t \in rest}

SnapInit ==
    /\ os \in [1..MaxSnap -> {"gone", "running", "stopped"}]
    /\ process_data \in SnapTablesFrom(1)
    /\ search_entry \in Terms
    /\ children_visible \in BOOLEAN
    /\ tree = Render(process_data, search_entry, children_visible).tree
    /\ tree_items = Render(process_data, search_entry, children_visible).tree_items
    /\ selection = 0
    /\ incarnation = [p \in 1..MaxSnap |-> 0]
    /\ taken = MaxSamples
    /\ installed = MaxSamples
    /\ queue = <<UpdateCall(ProcessesFrom(1, {pid \in OsPids : Alive(pid)}), taken),
                 Timer>>
    /\ sampler = "waiting"
    /\ last = Sampled({})
    /\ ui = "idle"
    /\ labels = InitialLabels
    /\ prober = "dead"

SnapNext ==
    \/ process_data_update
    \/ posted_refresh

SpecSnapshots == SnapInit /\ [][SnapNext]_vars

(***************************************************************************)
(* The reconcile specification: process_data_update on any raw list. The   *)
(* list holds at most MaxRaw entries, for pids of 1..MaxLive in any order, *)
(* a pid more than once and an entry naming any pid as its parent          *)
(* included; each pid is held by a process or free when the list is        *)
(* reconciled.                                                             *)
(***************************************************************************)
RawEntries ==
    {[pid |-> pid, name |-> OsName(pid), status |-> "running", ppid |-> ppid,
      created |-> 0] : pid \in 1..MaxLive, ppid \in 0..MaxLive}

RECURSIVE RawListsUpTo(_)
RawListsUpTo(n) ==
    IF n = 0
    THEN {<<>>}
    ELSE LET shorter == RawListsUpTo(n - 1) IN
         shorter \cup {Append(l, e) : l \in shorter, e \in RawEntries}

ReconcileInit ==
    /\ os \in [1..MaxLive -> {"gone", "running"}]
    /\ process_data = <<>>
    /\ search_entry = <<>>
    /\ children_visible \in BOOLEAN
    /\ tree = <<>>
    /\ tree_items = EmptyItems
    /\ selection = 0
    /\ incarnation = [p \in 1..MaxLive |-> 0]
    /\ taken = MaxSamples
    /\ installed = MaxSamples
    /\ \E processes \in RawListsUpTo(MaxRaw) :
           queue = <<UpdateCall(processes, taken), Timer>>
    /\ sampler = "waiting"
    /\ last = Sampled({})
    /\ ui = "idle"
    /\ labels = InitialLabels
    /\ prober = "dead"

ReconcileNext ==
    \/ process_data_update
    \/ posted_refresh

SpecReconcile == ReconcileInit /\ [][ReconcileNext]_vars

(***************************************************************************)
(* Properties of the rendered view (search_processes and                   *)
(* _insert_process_to_treeview).                                           *)
(***************************************************************************)
\* The view is the result of a render pass of the current cache, entry text
\* and toggle: the handler that ran last ended in search_processes.
Rendered == last.refresh

RowPids(rows) == [i \in 1..Len(rows) |-> rows[i].pid]

RecPids(table) == [i \in 1..Len(table) |-> table[i].pid]

RowsOf(pid) == {j \in 1..Len(tree) : tree[j].pid = pid}

\* Two characters are the same letter, whatever their case.
SameLetter(c, d) == c = d \/ {c, d} = {"a", "A"} \/ {c, d} = {"b", "B"}

\* term occurs in name as a contiguous substring, compared case-insensitively.
OccursIgnoringCase(term, name) ==
    \E off \in 0..(Len(name) - Len(term)) :
        \A k \in 1..Len(term) : SameLetter(name[off + k], term[k])

MatchingRecord(rec) == OccursIgnoringCase(search_entry, rec.name)

\* The record's parent link leads to a record of the table.
ParentInTable(rec) == rec.ppid # 0 /\ rec.ppid \in PidsOf(process_data)

MatchingRecords == SelectSeq(process_data, MatchingRecord)

MatchingRootRecord(rec) == MatchingRecord(rec) /\ ~ParentInTable(rec)

MatchingRootRecords == SelectSeq(process_data, MatchingRootRecord)

AllDepthZero == \A j \in 1..Len(tree) : tree[j].depth = 0 /\ tree[j].parent = 0

\* C1 (as stated): with nesting disabled, render emits exactly one depth-0
\* row for every record whose name matches the term, in table iteration
\* order, records whose ppid refers to another record of the table included.
C1_FlatListOfEveryMatch ==
    (Rendered /\ ~children_visible) =>
        /\ RowPids(tree) = RecPids(MatchingRecords)
        /\ AllDepthZero

\* C1 (amended): with children_visible false, render emits exactly one
\* depth-0 row, in table iteration order, for every matching record whose
\* ppid is 0 or is not a key of the table; a matching record whose ppid is a
\* key of the table gets no row.
C1_FlatListOfRoots ==
    (Rendered /\ ~children_visible) =>
        /\ RowPids(tree) = RecPids(MatchingRootRecords)
        /\ AllDepthZero

\* C1 witness: a render with nesting disabled emitted rows, skipped a
\* non-matching record and met a matching record whose parent is in the table.
C1_Witness ==
    /\ Rendered /\ ~children_visible
    /\ Len(tree) >= 1
    /\ \E i \in 1..Len(process_data) : ~MatchingRecord(process_data[i])
    /\ \E i \in 1..Len(process_data) :
          /\ MatchingRecord(process_data[i])
          /\ ParentInTable(process_data[i])
          /\ process_data[i].ppid # process_data[i].pid

\* The parent of the record was emitted as a depth-0 row before row j.
ParentEmittedAsRootBefore(rec, j) ==
    \E k \in 1..(j - 1) : tree[k].pid = rec.ppid /\ tree[k].depth = 0

\* C2: with nesting enabled every matching record gets one row; the row is
\* nested (depth 1, under its parent's row) exactly when the ppid is
\* non-zero, is a key of the table and the parent was emitted as a depth-0
\* row earlier in the pass; otherwise it is a root (depth 0). No row is
\* deeper than 1, and the chain 1 <- 2 <- 3 renders as 1 root, 2 under 1,
\* 3 root.
C2_SingleLevelNesting ==
    (Rendered /\ children_visible) =>
        /\ RowPids(tree) = RecPids(MatchingRecords)
        /\ \A j \in 1..Len(tree) :
              LET rec == MatchingRecords[j] IN
              IF ParentInTable(rec) /\ ParentEmittedAsRootBefore(rec, j)
              THEN tree[j].depth = 1 /\ tree[j].parent = rec.ppid
              ELSE tree[j].depth = 0 /\ tree[j].parent = 0
        /\ \A j \in 1..Len(tree) : tree[j].depth <= 1
        /\ ( /\ search_entry = <<>>
             /\ Len(process_data) = 3
             /\ \A i \in 1..3 : process_data[i].pid = i /\ process_data[i].ppid = i - 1 )
           => /\ [j \in 1..Len(tree) |-> tree[j].depth] = <<0, 1, 0>>
              /\ [j \in 1..Len(tree) |-> tree[j].parent] = <<0, 1, 0>>

\* C2 witness: the chain 1 <- 2 <- 3 rendered with nesting enabled.
C2_Witness ==
    /\ Rendered /\ children_visible
    /\ search_entry = <<>>
    /\ Len(process_data) = 3
    /\ \A i \in 1..3 : process_data[i].pid = i /\ process_data[i].ppid = i - 1
    /\ Len(tree) = 3 /\ tree[2].depth = 1 /\ tree[3].depth = 0

\* The record of the table that a pid's parent link leads to (0 = none).
ParentPid(pid) ==
    IF pid \in PidsOf(process_data) /\ ParentInTable(RecordOf(process_data, pid))
    THEN RecordOf(process_data, pid).ppid
    ELSE 0

RECURSIVE Ancestor(_, _)
Ancestor(pid, k) == IF k = 0 \/ pid = 0 THEN pid ELSE Ancestor(ParentPid(pid), k - 1)

\* The pid is its own ancestor through the ppid links of the table.
OnCycle(pid) ==
    \E k \in 1..Len(process_data) : Ancestor(pid, k) = pid

MatchingOnCycle ==
    {i \in 1..Len(process_data) :
        MatchingRecord(process_data[i]) /\ OnCycle(process_data[i].pid)}

\* C3 (as stated): for either value of children_visible the render pass
\* ends and every matching record on a ppid cycle is rendered exactly once,
\* as a root.
C3_CycleMembersAreRoots ==
    Rendered =>
        \A i \in MatchingOnCycle :
            /\ Cardinality(RowsOf(process_data[i].pid)) = 1
            /\ \A j \in RowsOf(process_data[i].pid) : tree[j].depth = 0

\* C3 (amended): the render pass ends and renders no record more than once;
\* with nesting enabled a matching record on a cycle is rendered exactly
\* once, as a root when its ppid is its own pid or its parent has not been
\* emitted as a root before it, and nested under its parent otherwise; with
\* nesting disabled a record on a cycle is not rendered.
C3_CycleMembersOnceWhenNested ==
    Rendered =>
        /\ Len(tree) <= Len(process_data)
        /\ \A p \in PidsOf(process_data) : Cardinality(RowsOf(p)) <= 1
        /\ \A i \in MatchingOnCycle :
              LET rec == process_data[i] IN
              IF children_visible
              THEN /\ Cardinality(RowsOf(rec.pid)) = 1
                   /\ \A j \in RowsOf(rec.pid) :
                         IF rec.ppid # rec.pid /\ ParentEmittedAsRootBefore(rec, j)
                         THEN tree[j].depth = 1 /\ tree[j].parent = rec.ppid
                         ELSE tree[j].depth = 0
              ELSE RowsOf(rec.pid) = {}

\* C3 witness: two matching records that name each other as parent, rendered
\* with nesting enabled: the first is a root, the second is nested under it.
C3_Witness ==
    /\ Rendered /\ children_visible
    /\ \E i, k \in MatchingOnCycle :
          /\ i < k
          /\ process_data[i].ppid = process_data[k].pid
          /\ process_data[k].ppid = process_data[i].pid
          /\ \E j \in RowsOf(process_data[k].pid) : tree[j].depth = 1
          /\ \E j \in RowsOf(process_data[i].pid) : tree[j].depth = 0

\* C4: a row is emitted only for a record whose name contains the search
\* term as a substring, compared case-insensitively; with the empty term the
\* filter excludes no record (what is missing is missing for its parent
\* link, with nesting disabled).
C4_FilterIsCaseInsensitiveSubstring ==
    Rendered =>
        /\ \A j \in 1..Len(tree) :
              /\ tree[j].pid \in PidsOf(process_data)
              /\ tree[j].name = RecordOf(process_data, tree[j].pid).name
              /\ OccursIgnoringCase(search_entry, tree[j].name)
        /\ search_entry = <<>> =>
              \A i \in 1..Len(process_data) :
                  (children_visible \/ ~ParentInTable(process_data[i]))
                      => RowsOf(process_data[i].pid) # {}

\* C4 witness: the term "aB" kept a record named "Ab" and excluded one
\* named "bA".
C4_Witness ==
    /\ Rendered /\ children_visible
    /\ search_entry = <<"a", "B">>
    /\ \E j \in 1..Len(tree) : tree[j].name = <<"A", "b">>
    /\ \E i \in 1..Len(process_data) :
          /\ process_data[i].name = <<"b", "A">>
          /\ RowsOf(process_data[i].pid) = {}


(***************************************************************************)
(* Properties of the control actions (kill_selected_process,               *)
(* suspend_selected_process, resume_selected_process, open_file_location). *)
(* Every step of a handler writes last, and only a control action writes a *)
(* control operation in it, so a step that ends with last.op = "kill" is a *)
(* step of kill_selected_process.                                          *)
(***************************************************************************)
ProcessOps == {"kill", "suspend", "resume"}

ControlOps == ProcessOps \cup {"open"}

\* The view after the step is the render of the state after the step.
ViewRefreshed ==
    /\ tree' = Render(process_data', search_entry', children_visible').tree
    /\ tree_items' = Render(process_data', search_entry', children_visible').tree_items

ViewUntouched ==
    /\ tree' = tree
    /\ tree_items' = tree_items
    /\ selection' = selection

\* C5: a control action invoked on a row whose pid is not a key of the
\* process table performs no OS operation, logs ProcessNotFound, calls
\* refresh_processes and raises nothing.
C5_VanishedPidIsNotFound ==
    [][ ( /\ last'.op \in ControlOps
          /\ last'.pid # 0
          /\ last'.pid \notin PidsOf(process_data) )
        => /\ last'.os_op = "none"
           /\ os' = os
           /\ last'.outcome = "ProcessNotFound"
           /\ last'.raised = "none"
           /\ last'.refresh
           /\ ViewRefreshed ]_vars

\* C5 witness: open_file_location ran on a stale row whose pid had left the
\* table, and the stale row is gone from the view.
C5_Witness ==
    /\ last.op = "open"
    /\ last.pid # 0
    /\ last.pid \notin PidsOf(process_data)
    /\ last.outcome = "ProcessNotFound"
    /\ RowsOf(last.pid) = {}

\* C6: kill, suspend or resume invoked on a pid of the table whose process
\* has exited: the OS operation raises NoSuchProcess, the handler logs
\* ProcessNotFound and calls refresh_processes, nothing propagates and the
\* table is unchanged.
C6_ExitedProcessIsNotFound ==
    [][ ( /\ last'.op \in ProcessOps
          /\ last'.pid \in PidsOf(process_data)
          /\ ~IsRunning(RecordOf(process_data, last'.pid).process_obj) )
        => /\ last'.os_op = last'.op
           /\ last'.raised = "NoSuchProcess"
           /\ last'.outcome = "ProcessNotFound"
           /\ last'.refresh
           /\ ViewRefreshed
           /\ process_data' = process_data
           /\ os' = os ]_vars

\* C6 witness: suspend hit NoSuchProcess on a pid that the table still holds.
C6_Witness ==
    /\ last.op = "suspend"
    /\ last.raised = "NoSuchProcess"
    /\ last.outcome = "ProcessNotFound"
    /\ last.pid \in PidsOf(process_data)
    /\ ~Alive(last.pid)

\* C7: when kill, suspend or resume raises AccessDenied the handler logs
\* PermissionDenied, does not refresh, and the table, the view and the
\* process are what they were.
C7_AccessDeniedChangesNothing ==
    [][ (last'.op \in ProcessOps /\ last'.raised = "AccessDenied")
        => /\ last'.outcome = "PermissionDenied"
           /\ ~last'.refresh
           /\ process_data' = process_data
           /\ ViewUntouched
           /\ os' = os ]_vars

\* C7 witness: resume was denied while the view was stale (the table had
\* been replaced and not yet re-rendered), and the view is still stale.
C7_Witness ==
    /\ last.op = "resume"
    /\ last.raised = "AccessDenied"
    /\ last.outcome = "PermissionDenied"
    /\ selection # 0
    /\ tree # Render(process_data, search_entry, children_visible).tree

\* C8 (as stated): after a successful kill, suspend or resume the refreshed
\* view shows the new status: no row for the killed pid, "stopped" for the
\* suspended process, "running" for the resumed one.
C8_ViewShowsNewStatus ==
    (last.op \in ProcessOps /\ last.outcome = "Success") =>
        /\ last.op = "kill" => RowsOf(last.pid) = {}
        /\ last.op = "suspend" =>
              \A j \in RowsOf(last.pid) : tree[j].status = "stopped"
        /\ last.op = "resume" =>
              \A j \in RowsOf(last.pid) : tree[j].status = "running"

\* C9: no control action changes the process table, whatever its outcome;
\* the table changes only in process_data_update, to the table built from
\* the posted sample.
C9_OnlyReconcileChangesTable ==
    [][ /\ last'.op \in ControlOps => process_data' = process_data
        /\ process_data' # process_data =>
              /\ queue # <<>>
              /\ Head(queue).cb = "process_data_update"
              /\ process_data' = Reconcile(Head(queue).processes) ]_vars

\* C9 witness: a kill succeeded and the table still holds the record of the
\* killed process.
C9_Witness ==
    /\ last.op = "kill"
    /\ last.outcome = "Success"
    /\ last.pid \in PidsOf(process_data)
    /\ ~Alive(last.pid)

\* C10 (as stated): when process.exe() raises NoSuchProcess in
\* open_file_location the outcome is ProcessNotFound and a refresh is
\* triggered.
C10_LocateExitedProcessIsNotFound ==
    (last.op = "open" /\ last.raised = "NoSuchProcess") =>
        /\ last.outcome = "ProcessNotFound"
        /\ last.refresh

(***************************************************************************)
(* Properties of the sampling cycle (_update_processes_thread,             *)
(* process_data_update, refresh_processes).                                *)
(***************************************************************************)
\* The step replaces self.process_data.
Swapped == process_data' # process_data

\* The record was built from the raw entry: the attributes are the sampled
\* ones.
BuiltFrom(rec, process) ==
    /\ rec.pid = process.pid
    /\ rec.name = process.name
    /\ rec.status = process.status
    /\ rec.ppid = process.ppid
    /\ rec.created = process.created

\* The pids of the raw list whose handle psutil.Process(pid) resolves now.
Resolvable(processes) ==
    {processes[k].pid : k \in {k \in 1..Len(processes) : Alive(processes[k].pid)}}

\* C11: the table is replaced in one step of the Tk thread by the whole
\* table of one sample: every pid of the sample that resolves is a key, once,
\* every record carries the attributes of that sample, and the step that
\* replaces the table renders nothing; a render pass reads the table in place
\* and leaves it alone. So a reader finds the whole previous table or the
\* whole new one.
C11_TableSwapIsAtomic ==
    [][ /\ Swapped =>
              /\ ui = "idle"
              /\ queue # <<>>
              /\ Head(queue).cb = "process_data_update"
              /\ LET processes == Head(queue).processes IN
                 /\ PidsOf(process_data') = Resolvable(processes)
                 /\ Cardinality(PidsOf(process_data')) = Len(process_data')
                 /\ \A i \in 1..Len(process_data') :
                        \E k \in 1..Len(processes) :
                            BuiltFrom(process_data'[i], processes[k])
              /\ tree' = tree
              /\ ~last'.refresh
        /\ last'.refresh =>
              /\ ~Swapped
              /\ tree' = Render(process_data, search_entry', children_visible').tree
      ]_vars

\* C11 witness: a table of two records, built from the second sample or a
\* later one, was rendered whole.
C11_Witness ==
    /\ installed >= 2
    /\ Len(process_data) = 2
    /\ last.refresh
    /\ Len(tree) >= 1
    /\ tree = Render(process_data, search_entry, children_visible).tree


\* The callback is registered and has not run yet.
Pending(q, callback) == \E i \in 1..Len(q) : q[i] = callback

\* The step is a cycle of the task that ended in its error handler.
FailedCycle(task) == last'.op = task /\ last'.outcome = "Error"

\* A posted refresh_processes has not run yet.
RefreshPending == \E i \in 1..Len(queue) : queue[i] = RefreshCall

\* The view is the render of the cache under the entry text and the toggle.
ViewCurrent ==
    /\ tree = Render(process_data, search_entry, children_visible).tree
    /\ tree_items = Render(process_data, search_entry, children_visible).tree_items

\* The step belongs to the sampling cycle: it is a step of the thread or it
\* runs a callback of the queue.
CycleStep == queue' # queue \/ sampler' # sampler

\* The step runs the callback at the head of the queue, which is cb: the
\* queue changes and no thread has moved.
Ran(cb) ==
    /\ queue # <<>>
    /\ Head(queue).cb = cb
    /\ queue' # queue
    /\ sampler' = sampler
    /\ prober' = prober

\* C15: a posted sample is installed as the new table, which posts a
\* re-render; the posted re-render runs, under the entry text and the toggle
\* of that moment, which no step of the cycle changes; so every numbered
\* sample leads to a state where a table at least as new is installed and
\* rendered. Whenever no re-render is pending the view is the render of the
\* table, the entry text and the toggle. A failed sample posts nothing and
\* leaves the table and the view alone.
C15_SampleIsInstalledAndRendered ==
    /\ [](~RefreshPending => ViewCurrent)
    /\ [][ /\ CycleStep =>
                 /\ search_entry' = search_entry
                 /\ children_visible' = children_visible
           /\ Ran("process_data_update") =>
                 /\ process_data' = Reconcile(Head(queue).processes)
                 /\ Pending(queue', RefreshCall)
           /\ Ran("refresh_processes") =>
                 /\ tree' = Render(process_data, search_entry, children_visible).tree
                 /\ process_data' = process_data
           /\ FailedCycle("sample") =>
                 /\ process_data' = process_data
                 /\ tree' = tree
                 /\ tree_items' = tree_items
                 /\ queue' = queue
         ]_vars
    /\ \A n \in 1..(MaxSamples - 1) :
           (taken = n) ~> (installed >= n /\ ~RefreshPending /\ ViewCurrent)

\* C15 witness: after a failed sample the view still is the render of the
\* table of the second sample or a later one, under a typed term that its
\* record matches and with nesting on.
C15_Witness ==
    /\ sampler = "failed"
    /\ installed >= 2
    /\ ~RefreshPending
    /\ search_entry = <<"A">>
    /\ children_visible
    /\ Len(process_data) = 1
    /\ Len(tree) = 1
    /\ ViewCurrent

\* The positions of the queue that hold a posted process_data_update.
UpdatesPending == {i \in 1..Len(queue) : queue[i].cb = "process_data_update"}

\* One sample is not older than another: the numbers stop at MaxSamples.
NotOlder(later, earlier) == later > earlier \/ later = MaxSamples

\* C16: the callbacks of the sampling cycle run in the order they were
\* posted: a posted table update waits behind the re-render posted before it
\* and ahead of the timer its thread registered after it, and posted updates
\* wait in the order of their samples; process_data_update installs the
\* sample at the head of the queue, which is newer than the sample the
\* current table was built from.
C16_SamplesInstalledInOrder ==
    /\ [](\A i \in UpdatesPending :
             /\ NotOlder(queue[i].sample, installed)
             /\ \A k \in UpdatesPending : i < k => NotOlder(queue[k].sample, queue[i].sample)
             /\ \A k \in 1..Len(queue) :
                    /\ queue[k] = RefreshCall => k < i
                    /\ queue[k] = Timer => i < k)
    /\ [][ /\ Ran("process_data_update") =>
                 /\ installed' = Head(queue).sample
                 /\ NotOlder(installed', installed)
           /\ installed' # installed => Ran("process_data_update")
         ]_vars

\* C16 witness: the table of the second sample is installed, its re-render
\* is still pending and the update of the third sample waits behind it.
C16_Witness ==
    /\ installed = 2
    /\ \E i \in UpdatesPending :
           /\ queue[i].sample = 3
           /\ \E k \in 1..(i - 1) : queue[k] = RefreshCall

\* The pids of a raw list.
RawPids(processes) == {processes[k].pid : k \in 1..Len(processes)}

C18_UnreadableProcessIsSkipped ==
    [][ (last'.op = "sample" /\ last'.skipped # {}) =>
            LET read == {pid \in OsPids : Alive(pid)} \ last'.skipped IN
            /\ last'.outcome = "Posted"
            /\ sampler' = "waiting"
            /\ Len(queue') = Len(queue) + 2
            /\ \E i \in 1..Len(queue') :
                   /\ queue'[i] = UpdateCall(ProcessesFrom(1, read), taken')
                   /\ \E k \in (i + 1)..Len(queue') : queue'[k] = Timer
      ]_vars

\* C18 witness: the thread skipped pid 1 and posted the entry of pid 2, with
\* the next timer behind it.
C18_Witness ==
    /\ last.op = "sample"
    /\ last.skipped = {1}
    /\ \E i \in UpdatesPending :
           /\ RawPids(queue[i].processes) = {2}
           /\ \E k \in (i + 1)..Len(queue) : queue[k] = Timer

\* C19 (as stated): kill, suspend or resume that succeeds acts on the
\* process whose attributes the record of the row shows: the holder of the
\* pid that the sample read, also when the pid changed hands since.
C19_ActsOnTheProcessShown ==
    [][ (last'.op \in ProcessOps /\ last'.outcome = "Success") =>
            incarnation[last'.pid] = RecordOf(process_data, last'.pid).created
      ]_vars

\* The rows that a view shows for a pid: none or one.
RowsFor(rows, pid) == {rows[j] : j \in {j \in 1..Len(rows) : rows[j].pid = pid}}

\* Where a view shows a pid: the depths of its rows.
Placement(rows, pid) == {row.depth : row \in RowsFor(rows, pid)}

\* The process is in both tables with the same attributes.
Unchanged(before, after, pid) ==
    /\ pid \in PidsOf(before)
    /\ pid \in PidsOf(after)
    /\ RecordOf(before, pid).name = RecordOf(after, pid).name
    /\ RecordOf(before, pid).status = RecordOf(after, pid).status
    /\ RecordOf(before, pid).ppid = RecordOf(after, pid).ppid

\* The view of the table that the step installs, under the entry text and
\* the toggle, which the step leaves alone.
NextRows == Render(process_data', search_entry, children_visible).tree

\* C20 (as stated): a process that the replaced table and the new table hold
\* with the same attributes has the same row, or no row, in the render of
\* both, whatever became of the other processes.
C20_UnchangedProcessKeepsRow ==
    [][ Ran("process_data_update") =>
            \A pid \in PidsOf(process_data) :
                Unchanged(process_data, process_data', pid) =>
                    RowsFor(tree, pid) = RowsFor(NextRows, pid)
      ]_vars

\* The parent of the record is in both tables or in neither, and both views
\* show it at the same depth or not at all.
ParentPlacedAlike(rec) ==
    /\ rec.ppid \in PidsOf(process_data) <=> rec.ppid \in PidsOf(process_data')
    /\ Placement(tree, rec.ppid) = Placement(NextRows, rec.ppid)

\* C20 (amended): a process that both tables hold with the same attributes
\* has the same row, or no row, in the render of both, provided that its
\* parent is in both tables or in neither and is shown at the same depth, or
\* not shown, in both.
C20_UnchangedProcessKeepsRowUnderSameParent ==
    [][ Ran("process_data_update") =>
            \A pid \in PidsOf(process_data) :
                ( /\ Unchanged(process_data, process_data', pid)
                  /\ ParentPlacedAlike(RecordOf(process_data, pid)) ) =>
                    RowsFor(tree, pid) = RowsFor(NextRows, pid)
      ]_vars

\* C20 witness: pid 3 is shown as a root because its parent, pid 2, is in
\* neither table; the table just installed holds it unchanged and holds
\* pid 1, which the view, not re-rendered yet, does not show.
C20_Witness ==
    /\ RefreshPending
    /\ last.op = "reconcile"
    /\ search_entry = <<>>
    /\ children_visible
    /\ PidsOf(process_data) = {1, 3}
    /\ RowsOf(1) = {}
    /\ RowsOf(2) = {}
    /\ \E j \in RowsOf(3) :
           /\ tree[j].depth = 0
           /\ tree[j].status = RecordOf(process_data, 3).status

(***************************************************************************)
(* Properties of the periodic tasks (update_system_info,                   *)
(* _update_processes_thread, _check_removable_drive_thread).               *)
(***************************************************************************)
\* The Tk thread runs the callback at the head of the queue.
Dispatch ==
    \/ update_system_info
    \/ config
    \/ check_removable_drive
    \/ update_processes
    \/ process_data_update
    \/ posted_refresh

\* A task is taking its sample: the process enumeration and the drive probe
\* in their threads, the gauge reads inside update_system_info.
SamplingProcesses == sampler = "running"

SamplingGauges == ui = "update_system_info"

SamplingDrive == prober = "running"

\* C12 (as stated): while a task is taking its sample, however long that
\* takes, the presentation context runs the posted callback that is due and
\* handles user events (the refresh button).
C12_SamplingNeverBlocksTkThread ==
    (SamplingProcesses \/ SamplingGauges \/ SamplingDrive) =>
        /\ queue # <<>> => ENABLED Dispatch
        /\ ENABLED refresh_processes


\* C13 (as stated): a cycle of a task that fails with an error still
\* registers the next cycle of the task, for each of the three tasks.
C13_FailedCycleIsRescheduled ==
    [][ /\ FailedCycle("sample") => Pending(queue', Timer)
        /\ FailedCycle("update_system_info") => Pending(queue', GaugeTimer)
        /\ FailedCycle("check_removable_drive") => Pending(queue', DriveTimer)
      ]_vars

\* C14 (as stated): a failed gauge read or drive probe is logged and posts
\* an "Error" text for the label of the failed item: the drive status, or a
\* gauge.
C14_ProbeFailurePostsPlaceholder ==
    [][ /\ FailedCycle("check_removable_drive") =>
              Pending(queue', ConfigCall("removable_drive_label", "Error"))
        /\ FailedCycle("update_system_info") =>
              \E i \in 1..Len(GaugeLabels) :
                  Pending(queue', ConfigCall(GaugeLabels[i], "Error"))
      ]_vars


(***************************************************************************)
(* Further properties of the rendered view.                                *)
(***************************************************************************)
\* C21: a render pass over the same table, under the same entry text and the
\* same toggle as the pass before it, leaves the same rows in the same order
\* at the same depths, and the same tree_items.
C21_RenderIsIdempotent ==
    [][ ( /\ Rendered
          /\ last'.op = "render"
          /\ process_data' = process_data
          /\ search_entry' = search_entry
          /\ children_visible' = children_visible ) =>
            /\ tree' = tree
            /\ tree_items' = tree_items
      ]_vars

\* C21 witness: the view is the result of a render pass that nested a row
\* and that made a root of a record whose parent comes later in the table,
\* so that tree_items holds both the record and its parent at the end.
C21_Witness ==
    /\ Rendered
    /\ last.op = "render"
    /\ \E j \in 1..Len(tree) : tree[j].depth = 1
    /\ \E i, k \in 1..Len(process_data) :
          /\ i < k
          /\ process_data[i].ppid = process_data[k].pid
          /\ process_data[i].pid \in DOMAIN tree_items
          /\ process_data[k].pid \in DOMAIN tree_items

(***************************************************************************)
(* Properties of the reconciled table on any raw list.                     *)
(***************************************************************************)
UniquePids(table) ==
    \A i, j \in 1..Len(table) : table[i].pid = table[j].pid => i = j

\* The last entry of the list for a pid.
LastEntryOf(processes, pid) ==
    LET ks == {k \in 1..Len(processes) : processes[k].pid = pid}
    IN processes[CHOOSE k \in ks : \A m \in ks : m <= k]

C23_EveryMatchOnceUnderEarlierParent ==
    (Rendered /\ children_visible) =>
        /\ \A i \in 1..Len(process_data) :
               Cardinality(RowsOf(process_data[i].pid)) =
                   IF MatchingRecord(process_data[i]) THEN 1 ELSE 0
        /\ Len(tree) = Len(MatchingRecords)
        /\ \A j \in 1..Len(tree) :
               \/ tree[j].depth = 0 /\ tree[j].parent = 0
               \/ /\ tree[j].depth = 1
                  /\ tree[j].parent = RecordOf(process_data, tree[j].pid).ppid
                  /\ \E k \in 1..(j - 1) : tree[k].pid = tree[j].parent

\* C23 witness: a render pass with nesting enabled nested a row, left out a
\* record that does not match, and made a root of a matching record whose
\* parent is a later record of the table.
C23_Witness ==
    /\ Rendered /\ children_visible
    /\ \E j \in 1..Len(tree) : tree[j].depth = 1
    /\ \E i \in 1..Len(process_data) : ~MatchingRecord(process_data[i])
    /\ \E i, k \in 1..Len(process_data) :
          /\ i < k
          /\ process_data[i].ppid = process_data[k].pid
          /\ MatchingRecord(process_data[i])
          /\ MatchingRecord(process_data[k])
          /\ \E j \in RowsOf(process_data[i].pid) : tree[j].depth = 0

(***************************************************************************)
(* Properties of the chains of the periodic tasks.                         *)
(***************************************************************************)
Count(q, callback) == Cardinality({i \in 1..Len(q) : q[i] = callback})

\* The cycles of a task that are outstanding: its pending timers, and its
\* sample when one is running.
ProcessCycles == Count(queue, Timer) + (IF sampler = "running" THEN 1 ELSE 0)

GaugeCycles ==
    Count(queue, GaugeTimer) + (IF ui = "update_system_info" THEN 1 ELSE 0)

DriveCycles == Count(queue, DriveTimer) + (IF prober = "running" THEN 1 ELSE 0)

ViewStep ==
    /\ last'.op = "render"
    /\ ~(queue # <<>> /\ Head(queue) = RefreshCall /\ queue' = Tail(queue))

\* C25: the refresh button, a change of the entry text and the toggle leave
\* the view as the render of the cached table under the entry text and the
\* toggle they leave; they register nothing, start no sample and leave the
\* table and its sample number alone; the toggle flips children_visible and
\* leaves the entry text, and a change of the entry text leaves the toggle.
\* So a second toggle renders the same table under the first flag again.
C25_ViewHandlersRenderTheCachedTable ==
    [][ ViewStep =>
            LET view == Render(process_data, search_entry', children_visible') IN
            /\ tree' = view.tree
            /\ tree_items' = view.tree_items
            /\ process_data' = process_data
            /\ queue' = queue
            /\ sampler' = sampler
            /\ os' = os
            /\ <<taken, installed>>' = <<taken, installed>>
            /\ search_entry' # search_entry => children_visible' = children_visible
            /\ children_visible' # children_visible => search_entry' = search_entry
      ]_vars

\* C25 witness: the user has typed a term and switched nesting on; the view
\* is the render of the cached table, with a nested row, while the next
\* sample of the processes is running.
C25_Witness ==
    /\ last.op = "render"
    /\ children_visible
    /\ search_entry # <<>>
    /\ ViewCurrent
    /\ \E j \in 1..Len(tree) : tree[j].depth = 1
    /\ sampler = "running"
    /\ ~RefreshPending

(***************************************************************************)
(* Properties of the control actions without a selection.                  *)
(***************************************************************************)
\* C26: a control action invoked while no row is selected invokes no OS
\* operation, does not call refresh_processes and registers nothing; it
\* leaves the processes, the table, the view and the selection as they are,
\* and the IndexError of self.tree.selection()[0] is caught and logged as
\* "no process selected".
C26_NoSelectionChangesNothing ==
    [][ (last'.op \in ControlOps /\ selection = 0) =>
            /\ last'.pid = 0
            /\ last'.os_op = "none"
            /\ last'.outcome = "NoSelection"
            /\ last'.raised = "IndexError"
            /\ ~last'.refresh
            /\ os' = os
            /\ process_data' = process_data
            /\ ViewUntouched
            /\ queue' = queue
            /\ sampler' = sampler
      ]_vars

\* C26 witness: a control action was invoked and found no selection, while
\* the view shows a row of a process that is running.
C26_Witness ==
    /\ last.op \in ControlOps
    /\ last.outcome = "NoSelection"
    /\ selection = 0
    /\ \E j \in 1..Len(tree) : Alive(tree[j].pid) /\ os[tree[j].pid] = "running"

(***************************************************************************)
(* Properties of the context menu.                                         *)
(***************************************************************************)
\* C27: for a row whose pid is a key of the table, the menu offers kill and
\* open_file_location in every case, suspend only when the live status is
\* running and resume only when it is stopped, never both; and a control
\* action moves a process from running to stopped only by suspend, from
\* stopped to running only by resume, and to gone only by kill.
C27_MenuOffersWhatTheStatusAllows ==
    [][ /\ (last'.op = "menu" /\ last'.pid \in PidsOf(process_data)) =>
              /\ {"kill", "open"} \subseteq last'.offered
              /\ "suspend" \in last'.offered => os[last'.pid] = "running"
              /\ "resume" \in last'.offered => os[last'.pid] = "stopped"
              /\ ~({"suspend", "resume"} \subseteq last'.offered)
        /\ last'.op \in ControlOps =>
              \A pid \in OsPids :
                  /\ (os[pid] = "running" /\ os'[pid] = "stopped") =>
                         last'.op = "suspend"
                  /\ (os[pid] = "stopped" /\ os'[pid] = "running") =>
                         last'.op = "resume"
                  /\ (os[pid] # "gone" /\ os'[pid] = "gone") =>
                         last'.op = "kill"
      ]_vars

=============================================================================
